---- MODULE Spec2Model ----
(***************************************************************************)
(* A model of crawler.py: the news extraction pipeline (date recognizer,   *)
(* date parser, categorizer, extractor), the persistence gateway           *)
(* (insert_news_data, clean_invalid_links) and the orchestrator (main).    *)
(*                                                                         *)
(* Text is modelled as a sequence of Unicode code points, so that the      *)
(* regular expressions of the source (character ranges, digit classes)     *)
(* and str.lower() are computed as the code computes them.                 *)
(***************************************************************************)
EXTENDS Integers, Sequences, FiniteSets, TLC

VARIABLES
    cat_pc, cat_title, cat_result,                     \* one call of categorize_news
    pd_pc, pd_input, pd_result,                        \* one call of parse_date
    ex_pc, html, base_url, news_list, trace, formatted_data,   \* one site's extraction
    st_pc, db, tx, data, item_i, inserted_count, records, rec_i, deleted_count,
    reachable, probes, outcomes, db_before, returned, last_call, next_id,
                                                       \* the store and its two gateways
    m_pc, site_i, calls, failures                      \* main

cat_vars == <<cat_pc, cat_title, cat_result>>

pd_vars == <<pd_pc, pd_input, pd_result>>

ex_vars == <<ex_pc, html, base_url, news_list, trace, formatted_data>>

st_vars == <<st_pc, db, tx, data, item_i, inserted_count, records, rec_i, deleted_count,
             reachable, probes, outcomes, db_before, returned, last_call, next_id>>

m_vars == <<m_pc, site_i, calls, failures>>

vars == <<cat_vars, pd_vars, ex_vars, st_vars, m_vars>>

(***************************************************************************)
(* Characters.  U names the CJK ideographs the source and the spec's       *)
(* examples use, by code point; A names the ASCII letters.                 *)
(***************************************************************************)
U == [ zhao   |-> 25307,  \* U+62DB
       sheng  |-> 29983,  \* U+751F
       lu     |-> 24405,  \* U+5F55
       qu     |-> 21462,  \* U+53D6
       shi    |-> 23454,  \* U+5B9E
       yan4   |-> 39564,  \* U+9A8C
       fa     |-> 21457,  \* U+53D1
       xian   |-> 29616,  \* U+73B0
       tu     |-> 31361,  \* U+7A81
       po     |-> 30772,  \* U+7834
       xiao   |-> 26657,  \* U+6821
       yuan2  |-> 22253,  \* U+56ED
       huo    |-> 27963,  \* U+6D3B
       da     |-> 22823,  \* U+5927
       xue    |-> 23398,  \* U+5B66
       yuan4  |-> 38498,  \* U+9662
       yan2   |-> 30740,  \* U+7814
       jiu    |-> 31350,  \* U+7A76
       shu    |-> 26415,  \* U+672F
       lun    |-> 35770,  \* U+8BBA
       wen    |-> 25991,  \* U+6587
       dong   |-> 21160,  \* U+52A8
       jiang  |-> 35762,  \* U+8BB2
       zuo    |-> 24231,  \* U+5EA7
       hui    |-> 20250,  \* U+4F1A
       yi     |-> 35758,  \* U+8BAE
       tong   |-> 36890,  \* U+901A
       zhi    |-> 30693,  \* U+77E5
       gong   |-> 20844,  \* U+516C
       gao    |-> 21578,  \* U+544A
       sheng1 |-> 22768,  \* U+58F0
       ming   |-> 26126,  \* U+660E
       fu     |-> 22797,  \* U+590D
       dan    |-> 26086,  \* U+65E6
       ju     |-> 20030,  \* U+4E3E
       ban    |-> 21150,  \* U+529E
       shang  |-> 19978,  \* U+4E0A
       hai    |-> 28023,  \* U+6D77
       zhao4  |-> 21484,  \* U+53EC
       kai    |-> 24320,  \* U+5F00
       gong1  |-> 24037,  \* U+5DE5
       zuo4   |-> 20316,  \* U+4F5C
       nian   |-> 24180,  \* U+5E74
       yue    |-> 26376,  \* U+6708
       ri     |-> 26085,  \* U+65E5
       qi     |-> 20854,  \* U+5176
       ta     |-> 20182,  \* U+4ED6
       ke     |-> 31185,  \* U+79D1
       kana   |-> 12354 ] \* U+3042, a non-Chinese letter outside the pattern's range

A == [ a |-> 97,  b |-> 98,  c |-> 99,  d |-> 100, e |-> 101, f |-> 102,
       g |-> 103, h |-> 104, i |-> 105, j |-> 106, k |-> 107, l |-> 108,
       m |-> 109, n |-> 110, o |-> 111, p |-> 112, q |-> 113, r |-> 114,
       s |-> 115, t |-> 116, u |-> 117, v |-> 118, w |-> 119, x |-> 120,
       y |-> 121, z |-> 122,
       F |-> 70, N |-> 78, E |-> 69, W |-> 87, S |-> 83,
       amp |-> 38, semi |-> 59, lt |-> 60, space |-> 32,
       dash |-> 45, slash |-> 47, dot |-> 46, colon |-> 58 ]

\* The ASCII digit n.
Dg(n) == 48 + n

IsDigit(c) == c >= 48 /\ c <= 57

DigitVal(c) == c - 48

\* s (a sequence) starts with p at position i.
StartsAt(s, p, i) ==
    /\ i >= 1
    /\ i + Len(p) - 1 <= Len(s)
    /\ SubSeq(s, i, i + Len(p) - 1) = p

\* Python's `kw in s`.
Contains(s, kw) == \E i \in 1..(Len(s) + 1) : StartsAt(s, kw, i)

RECURSIVE Concat(_)
Concat(ss) == IF ss = <<>> THEN <<>> ELSE Head(ss) \o Concat(Tail(ss))

(***************************************************************************)
(* categorize_news                                                         *)
(***************************************************************************)
\* str.lower() on the characters of the model: ASCII capitals fold, CJK
\* ideographs, digits and punctuation have no case.
LowerChar(c) == IF c >= 65 /\ c <= 90 THEN c + 32 ELSE c

Lower(s) == [i \in 1..Len(s) |-> LowerChar(s[i])]

\* The dict of line 47, in insertion order (the order .items() iterates in).
category_mapping == <<
    [category |-> <<U.zhao, U.sheng>>,
     keywords |-> << <<U.zhao, U.sheng>>, <<U.lu, U.qu>>,
                     <<A.a, A.d, A.m, A.i, A.s, A.s, A.i, A.o, A.n, A.s>> >>],
    [category |-> <<U.ke, U.yan2>>,
     keywords |-> << <<U.shi, U.yan4>>, <<U.fa, U.xian>>, <<U.tu, U.po>>,
                     <<A.d, A.i, A.s, A.c, A.o, A.v, A.e, A.r, A.y>> >>],
    [category |-> <<U.xiao, U.yuan2>>,
     keywords |-> << <<U.xiao, U.yuan2>>, <<U.xiao, U.yuan2, U.sheng, U.huo>>,
                     <<A.c, A.a, A.m, A.p, A.u, A.s>> >>],
    [category |-> <<U.da, U.xue>>,
     keywords |-> << <<U.da, U.xue>>, <<U.xue, U.yuan4>>,
                     <<A.u, A.n, A.i, A.v, A.e, A.r, A.s, A.i, A.t, A.y>> >>],
    [category |-> <<U.xue, U.shu>>,
     keywords |-> << <<U.yan2, U.jiu>>, <<U.xue, U.shu>>, <<U.lun, U.wen>>,
                     <<A.s, A.c, A.i, A.e, A.n, A.c, A.e>>,
                     <<A.r, A.e, A.s, A.e, A.a, A.r, A.c, A.h>> >>],
    [category |-> <<U.huo, U.dong>>,
     keywords |-> << <<U.huo, U.dong>>, <<U.jiang, U.zuo>>, <<U.hui, U.yi>>,
                     <<A.e, A.v, A.e, A.n, A.t>>, <<A.f, A.o, A.r, A.u, A.m>> >>],
    [category |-> <<U.gong, U.gao>>,
     keywords |-> << <<U.tong, U.zhi>>, <<U.gong, U.gao>>, <<U.sheng1, U.ming>>,
                     <<A.a, A.n, A.n, A.o, A.u, A.n, A.c, A.e, A.m, A.e, A.n, A.t>> >>] >>

\* The default of line 63.
OtherCategory == <<U.qi, U.ta>>

\* any(kw in title_lower for kw in keywords)
AnyKeyword(title_lower, keywords) ==
    \E k \in 1..Len(keywords) : Contains(title_lower, keywords[k])

\* The for loop of lines 60-62 from its i-th item on, then line 63.
RECURSIVE CategorizeFrom(_, _)
CategorizeFrom(title_lower, i) ==
    IF i > Len(category_mapping) THEN OtherCategory
    ELSE IF AnyKeyword(title_lower, category_mapping[i].keywords)
         THEN category_mapping[i].category
         ELSE CategorizeFrom(title_lower, i + 1)

\* A categorizer that keeps scanning and returns the last matching category.
RECURSIVE CategorizeLastFrom(_, _, _)
CategorizeLastFrom(title_lower, i, found) ==
    IF i > Len(category_mapping) THEN found
    ELSE CategorizeLastFrom(title_lower, i + 1,
            IF AnyKeyword(title_lower, category_mapping[i].keywords)
            THEN category_mapping[i].category ELSE found)

categorize_news_last_match(title) == CategorizeLastFrom(Lower(title), 1, OtherCategory)

categorize_news(title) == CategorizeFrom(Lower(title), 1)

\* The two titles of the spec's examples.
FudanTitle == <<U.fu, U.dan, U.da, U.xue, U.ju, U.ban, U.xue, U.shu, U.jiang, U.zuo>>

ShuTitle == <<U.shang, U.hai, U.da, U.xue, U.zhao4, U.kai, Dg(2), Dg(0), Dg(2), Dg(4),
              U.nian, U.zhao, U.sheng, U.gong1, U.zuo4, U.hui, U.yi>>

\* Words the categorizer's inputs are built from: a keyword of most
\* categories, fillers, a lone ideograph that completes a keyword across a
\* word boundary, and an ASCII keyword in capitals.
CatWords == { <<U.zhao, U.sheng>>, <<U.fa, U.xian>>, <<U.xiao, U.yuan2>>,
              <<U.da, U.xue>>, <<U.xue, U.shu>>, <<U.jiang, U.zuo>>,
              <<U.tong, U.zhi>>, <<U.fu, U.dan>>, <<U.ju, U.ban>>, <<U.da>>,
              <<A.F, A.o, A.r, A.u, A.m>>, <<A.N, A.E, A.W, A.S>> }

MaxWords == 3

CatTitles ==
    {FudanTitle, ShuTitle} \cup
    UNION { { Concat(ws) : ws \in [1..n -> CatWords] } : n \in 0..MaxWords }

(***************************************************************************)
(* Regular expressions.  A pattern is a sequence of items; an item is an   *)
(* ordered sequence of alternatives; an alternative is a sequence of       *)
(* character classes (sets of code points).  A greedy \d{1,2} is the item  *)
(* (\d\d | \d), an optional [-/]? is ([-/] | empty): the backtracking      *)
(* matcher of Python's re tries them in exactly this order and keeps the   *)
(* first complete match.                                                   *)
(***************************************************************************)
\* \d on a str pattern matches every Unicode decimal digit; the model
\* carries the ASCII digits and the fullwidth digits U+FF10..U+FF19.
DigitClass == (48..57) \cup (65296..65305)

SepClass == {A.dash, A.slash}

IntOfDigit(c) == IF c <= 57 THEN c - 48 ELSE c - 65296

ReD1 == << <<DigitClass>> >>

ReD2 == << <<DigitClass, DigitClass>> >>

ReD4 == << <<DigitClass, DigitClass, DigitClass, DigitClass>> >>

ReD12 == << <<DigitClass, DigitClass>>, <<DigitClass>> >>

ReSepOpt == << <<SepClass>>, <<>> >>

ReClass(cls) == << <<cls>> >>

ReLit(c) == ReClass({c})

ReFail == [ok |-> FALSE, end |-> 0, lens |-> <<>>]

AltMatches(alt, s, pos) ==
    /\ pos + Len(alt) - 1 <= Len(s)
    /\ \A j \in 1..Len(alt) : s[pos + j - 1] \in alt[j]

\* Match items[k..] at s[pos..]: the end (the position after the match) and
\* the length each item consumed, of the first match in backtracking order.
RECURSIVE ReItems(_, _, _, _)
RECURSIVE ReTryAlts(_, _, _, _, _)
ReItems(items, k, s, pos) ==
    IF k > Len(items) THEN [ok |-> TRUE, end |-> pos, lens |-> <<>>]
    ELSE ReTryAlts(items, k, 1, s, pos)

ReTryAlts(items, k, a, s, pos) ==
    IF a > Len(items[k]) THEN ReFail
    ELSE LET alt == items[k][a]
             r   == ReItems(items, k + 1, s, pos + Len(alt))
         IN  IF AltMatches(alt, s, pos) /\ r.ok
             THEN [ok |-> TRUE, end |-> r.end, lens |-> <<Len(alt)>> \o r.lens]
             ELSE ReTryAlts(items, k, a + 1, s, pos)

\* The substring item k of a match starting at `start` consumed.
RECURSIVE SumTo(_, _)
SumTo(lens, k) == IF k = 0 THEN 0 ELSE lens[k] + SumTo(lens, k - 1)

ReGroup(s, start, lens, k) ==
    SubSeq(s, start + SumTo(lens, k - 1), start + SumTo(lens, k) - 1)

(***************************************************************************)
(* date_pattern (line 39) and date_pattern.search                          *)
(***************************************************************************)
date_pattern == <<
    <<ReD4, ReSepOpt, ReD12, ReSepOpt, ReD12>>,                  \* \d{4}[-/]?\d{1,2}[-/]?\d{1,2}
    <<ReD12, ReSepOpt, ReD12, ReSepOpt, ReD4>>,                  \* \d{1,2}[-/]?\d{1,2}[-/]?\d{4}
    <<ReD4, ReLit(U.nian), ReD12, ReLit(U.yue), ReD12, ReLit(U.ri)>>,  \* \d{4}nian\d{1,2}yue\d{1,2}ri
    <<ReD2, ReD4, ReLit(A.slash), ReD2>>,                        \* \d{2}\d{4}/\d{2}
    <<ReD2, ReD4>> >>                                            \* \d{2}\d{4}

\* The alternation at one start position: the first alternative that matches.
RECURSIVE MatchAlternation(_, _, _, _)
MatchAlternation(pattern, a, s, pos) ==
    IF a > Len(pattern) THEN ReFail
    ELSE LET r == ReItems(pattern[a], 1, s, pos)
         IN  IF r.ok THEN r ELSE MatchAlternation(pattern, a + 1, s, pos)

\* pattern.search(text).group(1): the leftmost match; found = FALSE is None.
RECURSIVE SearchFrom(_, _, _)
SearchFrom(pattern, text, start) ==
    IF start > Len(text) THEN [found |-> FALSE, start |-> 0, group |-> <<>>]
    ELSE LET r == MatchAlternation(pattern, 1, text, start)
         IN  IF r.ok
             THEN [found |-> TRUE, start |-> start,
                   group |-> SubSeq(text, start, r.end - 1)]
             ELSE SearchFrom(pattern, text, start + 1)

Search(pattern, text) == SearchFrom(pattern, text, 1)

(***************************************************************************)
(* datetime.strptime for the directives %Y %m %d and literal characters,   *)
(* and parse_date (lines 95-105)                                           *)
(***************************************************************************)
Lit(c) == [dir |-> "lit", ch |-> c]

DirY == [dir |-> "Y", ch |-> 0]

DirM == [dir |-> "m", ch |-> 0]

DirD == [dir |-> "d", ch |-> 0]

\* The list of line 44, in order.
date_formats == <<
    <<DirY, Lit(U.nian), DirM, Lit(U.yue), DirD, Lit(U.ri)>>,   \* %Ynian%myue%dri
    <<DirY, DirM, DirD>>,                                        \* %Y%m%d
    <<DirY, Lit(A.slash), DirM, Lit(A.slash), DirD>>,            \* %Y/%m/%d
    <<DirY, Lit(A.dash), DirM, Lit(A.dash), DirD>>,              \* %Y-%m-%d
    <<DirY, Lit(A.dash), DirM>>,                                 \* %Y-%m
    <<DirM, DirD, DirY>>,                                        \* %m%d%Y
    <<DirD, DirY, Lit(A.slash), DirM>> >>                        \* %d%Y/%m

\* The regular expression strptime compiles a directive to.
DirectiveRegex(t) ==
    CASE t.dir = "Y" -> ReD4                                     \* \d\d\d\d
      [] t.dir = "m" -> << <<{49}, 48..50>>, <<{48}, 49..57>>, <<49..57>> >>
                                                                 \* 1[0-2]|0[1-9]|[1-9]
      [] t.dir = "d" -> << <<{51}, 48..49>>, <<49..50, DigitClass>>,
                           <<{48}, 49..57>>, <<49..57>>, <<{A.space}, 49..57>> >>
                                                                 \* 3[0-1]|[1-2]\d|0[1-9]|[1-9]| [1-9]
      [] OTHER       -> ReLit(t.ch)

FormatRegex(fmt) == [i \in 1..Len(fmt) |-> DirectiveRegex(fmt[i])]

\* int() of a matched field (a leading space is stripped).
RECURSIVE IntOf(_)
IntOf(ds) ==
    IF ds = <<>> THEN 0
    ELSE IF ds[Len(ds)] = A.space THEN 0
    ELSE IntOfDigit(ds[Len(ds)]) + 10 * IntOf(SubSeq(ds, 1, Len(ds) - 1))

IsLeap(y) == (y % 4 = 0) /\ ((y % 100 # 0) \/ (y % 400 = 0))

DaysInMonth(y, m) ==
    IF m = 2 THEN (IF IsLeap(y) THEN 29 ELSE 28)
    ELSE IF m \in {4, 6, 9, 11} THEN 30 ELSE 31

\* The dates datetime accepts.
ValidDate(y, m, d) ==
    /\ y >= 1 /\ y <= 9999
    /\ m >= 1 /\ m <= 12
    /\ d >= 1 /\ d <= DaysInMonth(y, m)

NoDate == [y |-> 0, m |-> 0, d |-> 0]

ValueError == [ok |-> FALSE, date |-> NoDate]

\* The field of directive `dir` in a match, or the default when the format
\* has no such directive.
FieldOf(fmt, s, lens, dir, default) ==
    IF \E k \in 1..Len(fmt) : fmt[k].dir = dir
    THEN IntOf(ReGroup(s, 1, lens, CHOOSE k \in 1..Len(fmt) : fmt[k].dir = dir))
    ELSE default

\* datetime.strptime(date_str, fmt): the format's regex is matched at the
\* start of the string; a match that leaves characters over ("unconverted
\* data remains") or names an impossible date raises ValueError.
strptime(date_str, fmt) ==
    LET r == ReItems(FormatRegex(fmt), 1, date_str, 1)
        y == FieldOf(fmt, date_str, r.lens, "Y", 1900)
        m == FieldOf(fmt, date_str, r.lens, "m", 1)
        d == FieldOf(fmt, date_str, r.lens, "d", 1)
    IN  IF ~r.ok THEN ValueError
        ELSE IF r.end # Len(date_str) + 1 THEN ValueError
        ELSE IF ~ValidDate(y, m, d) THEN ValueError
        ELSE [ok |-> TRUE, date |-> [y |-> y, m |-> m, d |-> d]]

IsYearMonth(fmt) == fmt = <<DirY, Lit(A.dash), DirM>>

\* The for loop of lines 97-104 from format k on, then line 105.
RECURSIVE ParseDateFrom(_, _, _)
ParseDateFrom(formats, date_str, k) ==
    IF k > Len(formats) THEN ValueError
    ELSE LET r == strptime(date_str, formats[k])
         IN  IF r.ok
             THEN IF IsYearMonth(formats[k])
                  THEN [ok |-> TRUE, date |-> [r.date EXCEPT !.d = 1]]
                  ELSE r
             ELSE ParseDateFrom(formats, date_str, k + 1)

\* A parser that tries %m%d%Y before %Y%m%d.
parse_date_reordered(date_str) ==
    ParseDateFrom(<<date_formats[1], date_formats[6], date_formats[3],
                    date_formats[4], date_formats[5], date_formats[2],
                    date_formats[7]>>, date_str, 1)

parse_date(date_str) == ParseDateFrom(date_formats, date_str, 1)

\* strftime('%Y-%m-%d') (line 221); the years of the model's pages have
\* four digits.
Pad2(n) == <<Dg(n \div 10), Dg(n % 10)>>

FormatDate(dt) ==
    <<Dg(dt.y \div 1000), Dg((dt.y \div 100) % 10), Dg((dt.y \div 10) % 10), Dg(dt.y % 10)>>
    \o <<A.dash>> \o Pad2(dt.m) \o <<A.dash>> \o Pad2(dt.d)

(***************************************************************************)
(* The parsed document.  A page is the sequence of its nodes in document   *)
(* order; node 0 is the BeautifulSoup object itself (the root, whose       *)
(* parent is None).  An element's get_text() is the concatenation of the   *)
(* text nodes below it.                                                    *)
(***************************************************************************)
NoElement == -1

Tag(parent) ==
    [kind |-> "tag", parent |-> parent, has_href |-> FALSE, href |-> <<>>,
     title |-> <<>>, text |-> <<>>]

Text(parent, str) ==
    [kind |-> "text", parent |-> parent, has_href |-> FALSE, href |-> <<>>,
     title |-> <<>>, text |-> str]

Anchor(parent, href, title) ==
    [kind |-> "a", parent |-> parent, has_href |-> TRUE, href |-> href,
     title |-> title, text |-> <<>>]

AnchorNoHref(parent) ==
    [kind |-> "a", parent |-> parent, has_href |-> FALSE, href |-> <<>>,
     title |-> <<>>, text |-> <<>>]

\* element.parent
Parent(page, e) == IF e = 0 THEN NoElement ELSE page[e].parent

\* Whether node i lies in the subtree of element e (e itself included).
RECURSIVE InSubtree(_, _, _)
InSubtree(page, i, e) ==
    IF i = e THEN TRUE
    ELSE IF i = 0 THEN FALSE
    ELSE InSubtree(page, page[i].parent, e)

IsSpace(c) == c = A.space

\* str.strip()
RECURSIVE LStrip(_)
LStrip(s) == IF s # <<>> /\ IsSpace(Head(s)) THEN LStrip(Tail(s)) ELSE s

RECURSIVE RStrip(_)
RStrip(s) ==
    IF s # <<>> /\ IsSpace(s[Len(s)]) THEN RStrip(SubSeq(s, 1, Len(s) - 1)) ELSE s

Strip(s) == RStrip(LStrip(s))

\* element.get_text() (strip = FALSE) and element.get_text(strip=True):
\* the text nodes below e, in document order, each stripped when asked.
RECURSIVE TextFrom(_, _, _, _)
TextFrom(page, e, i, strip) ==
    IF i > Len(page) THEN <<>>
    ELSE (IF page[i].kind = "text" /\ InSubtree(page, i, e)
          THEN (IF strip THEN Strip(page[i].text) ELSE page[i].text)
          ELSE <<>>) \o TextFrom(page, e, i + 1, strip)

get_text(page, e, strip) == TextFrom(page, e, 1, strip)

\* html.unescape; the texts of the model carry the references &amp; and &lt;.
AmpRef == <<A.amp, A.a, A.m, A.p, A.semi>>

LtRef == <<A.amp, A.l, A.t, A.semi>>

RECURSIVE unescape(_)
unescape(s) ==
    IF s = <<>> THEN <<>>
    ELSE IF StartsAt(s, AmpRef, 1)
         THEN <<A.amp>> \o unescape(SubSeq(s, Len(AmpRef) + 1, Len(s)))
    ELSE IF StartsAt(s, LtRef, 1)
         THEN <<A.lt>> \o unescape(SubSeq(s, Len(LtRef) + 1, Len(s)))
    ELSE <<Head(s)>> \o unescape(Tail(s))

\* chinese_pattern (line 40): [一-龥]
chinese_pattern == << <<ReClass(19968..40869)>> >>

\* soup.find_all('a', href=True), in document order.
RECURSIVE FindAllFrom(_, _)
FindAllFrom(page, i) ==
    IF i > Len(page) THEN <<>>
    ELSE (IF page[i].kind = "a" /\ page[i].has_href THEN <<i>> ELSE <<>>)
         \o FindAllFrom(page, i + 1)

find_all_links(page) == FindAllFrom(page, 1)

(***************************************************************************)
(* urljoin(base_url, href) for the references of the model: a reference    *)
(* with a scheme, an absolute path, the empty reference and a relative     *)
(* path without dot segments.                                              *)
(***************************************************************************)
SchemeSep == <<A.colon, A.slash, A.slash>>

HasScheme(u) == \E i \in 2..Len(u) : StartsAt(u, SchemeSep, i)

\* The position of the first "/" of the path of an absolute URL (after
\* scheme://authority), or Len(u) + 1 when it has no path.
PathStart(u) ==
    LET a == CHOOSE i \in 2..Len(u) : StartsAt(u, SchemeSep, i)
                                     /\ \A j \in 2..(i - 1) : ~StartsAt(u, SchemeSep, j)
        slashes == {k \in (a + 3)..Len(u) : u[k] = A.slash}
    IN  IF slashes = {} THEN Len(u) + 1
        ELSE CHOOSE k \in slashes : \A k2 \in slashes : k <= k2

LastSlash(u) ==
    LET slashes == {k \in PathStart(u)..Len(u) : u[k] = A.slash}
    IN  IF slashes = {} THEN 0
        ELSE CHOOSE k \in slashes : \A k2 \in slashes : k >= k2

\* A join that appends every reference to the base's directory.
urljoin_concat(base, href) ==
    IF LastSlash(base) = 0 THEN base \o <<A.slash>> \o href
    ELSE SubSeq(base, 1, LastSlash(base)) \o href

urljoin(base, href) ==
    IF href = <<>> THEN base
    ELSE IF HasScheme(href) THEN href
    ELSE IF Head(href) = A.slash THEN SubSeq(base, 1, PathStart(base) - 1) \o href
    ELSE IF LastSlash(base) = 0 THEN base \o <<A.slash>> \o href
    ELSE SubSeq(base, 1, LastSlash(base)) \o href

(***************************************************************************)
(* extract_news (lines 187-226)                                            *)
(***************************************************************************)
\* Line 195.
MinTitleLen == 8

\* Line 194: the title attribute when it is non-empty, else the stripped text.
TitleOf(page, link) ==
    unescape(IF page[link].title # <<>> THEN page[link].title
             ELSE get_text(page, link, TRUE))

\* The while loop of lines 206-213: the elements examined, in order, and the
\* date substring found (found = FALSE: date_str is None).
RECURSIVE DateWalk(_, _, _)
DateWalk(page, element, consulted) ==
    IF element = NoElement
    THEN [found |-> FALSE, date_str |-> <<>>, consulted |-> consulted]
    ELSE LET match == Search(date_pattern, get_text(page, element, FALSE))
         IN  IF match.found
             THEN [found |-> TRUE, date_str |-> match.group,
                   consulted |-> Append(consulted, element)]
             ELSE DateWalk(page, Parent(page, element), Append(consulted, element))

\* A walk that does not stop at the first match: the outermost match wins.
RECURSIVE DateWalkOutermost(_, _, _, _)
DateWalkOutermost(page, element, consulted, best) ==
    IF element = NoElement
    THEN [found |-> best # <<>>, date_str |-> best, consulted |-> consulted]
    ELSE LET match == Search(date_pattern, get_text(page, element, FALSE))
         IN  DateWalkOutermost(page, Parent(page, element), Append(consulted, element),
                               IF match.found THEN match.group ELSE best)

FindDateOutermost(page, link) == DateWalkOutermost(page, link, <<>>, <<>>)

FindDate(page, link) == DateWalk(page, link, <<>>)

NoRecord == [title |-> <<>>, url |-> <<>>, date |-> <<>>]

\* A filter that skips only a title that is both short and without a Chinese
\* character.
TitleRejectedBoth(title) ==
    /\ Len(title) < MinTitleLen
    /\ ~Search(chinese_pattern, title).found

\* Lines 195-200: the candidate is skipped (`not title` is the length 0).
TitleRejected(title) ==
    \/ Len(title) < MinTitleLen
    \/ ~Search(chinese_pattern, title).found

\* One iteration of the for loop of line 192: what happens to one anchor.
\*   outcome "short_or_foreign": skipped by the filters of lines 195-200;
\*           "no_date": the walk reached the root without a match;
\*           "invalid_date": parse_date raised, the warning of line 224;
\*           "appended": the record was appended.
ProcessLink(page, base, link) ==
    LET title == TitleOf(page, link)
        url   == urljoin(base, page[link].href)
        walk  == FindDate(page, link)
        dt    == parse_date(walk.date_str)
    IN  IF TitleRejected(title)
        THEN [outcome |-> "short_or_foreign", rec |-> NoRecord, link |-> link,
              consulted |-> <<>>, date_str |-> <<>>]
        ELSE IF ~(walk.found /\ url # <<>>)
        THEN [outcome |-> "no_date", rec |-> NoRecord, link |-> link,
              consulted |-> walk.consulted, date_str |-> walk.date_str]
        ELSE IF ~dt.ok
        THEN [outcome |-> "invalid_date", rec |-> NoRecord, link |-> link,
              consulted |-> walk.consulted, date_str |-> walk.date_str]
        ELSE [outcome |-> "appended",
              rec |-> [title |-> title, url |-> url, date |-> FormatDate(dt.date)],
              link |-> link, consulted |-> walk.consulted, date_str |-> walk.date_str]

\* The for loop from the k-th anchor on: the list built and, per anchor, what
\* happened to it.  The except clause of line 223 sits inside the loop, so an
\* unparseable date skips one anchor only.
RECURSIVE ExtractFrom(_, _, _, _)
ExtractFrom(page, base, links, k) ==
    IF k > Len(links) THEN [news_list |-> <<>>, trace |-> <<>>]
    ELSE LET p    == ProcessLink(page, base, links[k])
             rest == ExtractFrom(page, base, links, k + 1)
         IN  [news_list |-> (IF p.outcome = "appended" THEN <<p.rec>> ELSE <<>>)
                            \o rest.news_list,
              trace |-> <<p>> \o rest.trace]

\* An extractor whose first unparseable date ends the loop.
RECURSIVE ExtractFromAborting(_, _, _, _)
ExtractFromAborting(page, base, links, k) ==
    IF k > Len(links) THEN [news_list |-> <<>>, trace |-> <<>>]
    ELSE LET p    == ProcessLink(page, base, links[k])
             rest == IF p.outcome = "invalid_date"
                     THEN [news_list |-> <<>>, trace |-> <<>>]
                     ELSE ExtractFromAborting(page, base, links, k + 1)
         IN  [news_list |-> (IF p.outcome = "appended" THEN <<p.rec>> ELSE <<>>)
                            \o rest.news_list,
              trace |-> <<p>> \o rest.trace]

extract_news_aborting(html_content, base) ==
    ExtractFromAborting(html_content, base, find_all_links(html_content), 1)

extract_news(html_content, base) ==
    ExtractFrom(html_content, base, find_all_links(html_content), 1)

(***************************************************************************)
(* Inputs of the extractor: texts, and pages assembled from fragments of   *)
(* listing markup under one container element.                             *)
(***************************************************************************)
Ds(ns) == [i \in 1..Len(ns) |-> Dg(ns[i])]

ShuOrigin == <<A.h, A.t, A.t, A.p, A.s, A.colon, A.slash, A.slash, A.n, A.e, A.w, A.s,
               A.dot, A.s, A.h, A.u, A.dot, A.e, A.d, A.u, A.dot, A.c, A.n>>

\* The first entry of `sites` (line 229), and what main passes as base_url
\* for it (line 257: url.rsplit('/', 1)[0]).
ShuListing == ShuOrigin \o <<A.slash, A.i, A.n, A.d, A.e, A.x, A.slash, A.z, A.y, A.x, A.w,
                             A.dot, A.h, A.t, A.m>>

ShuListingDir == ShuOrigin \o <<A.slash, A.i, A.n, A.d, A.e, A.x>>

HrefAbsPath == <<A.slash, A.n, A.e, A.w, A.s, A.slash, Dg(1), A.dot, A.h, A.t, A.m>>

HrefRelative == <<A.n, A.e, A.w, A.s, A.slash, Dg(2), A.dot, A.h, A.t, A.m>>

HrefAbsolute == <<A.h, A.t, A.t, A.p, A.s, A.colon, A.slash, A.slash, A.f, A.u, A.d, A.a, A.n,
                  A.dot, A.c, A.n, A.slash, Dg(3)>>

ShortTitle == <<U.tong, U.zhi>>

SevenTitle == <<U.fu, U.dan, U.da, U.xue, U.ju, U.ban, U.hui>>

EightTitle == <<U.fu, U.dan, U.da, U.xue, U.ju, U.ban, U.hui, U.yi>>

AsciiTitle == <<A.c, A.a, A.m, A.p, A.u, A.s, A.space, A.n, A.e, A.w, A.s>>

KanaTitle == <<U.kana, U.kana, U.kana, U.kana, U.kana, U.kana, U.kana, U.kana>>

\* Eleven characters as written, seven once &amp; is decoded.
EntityTitle == <<U.fu, U.dan>> \o AmpRef \o <<U.da, U.xue, U.tong, U.zhi>>

\* Ten characters as written, six once stripped.
PaddedTitle == <<A.space, A.space, U.fu, U.dan, U.da, U.xue, U.ju, U.ban, A.space, A.space>>

MoreText == <<A.m, A.o, A.r, A.e>>

DateIso == Ds(<<2, 0, 2, 4>>) \o <<A.dash>> \o Ds(<<0, 5>>) \o <<A.dash>> \o Ds(<<1, 0>>)

DateChinese == Ds(<<2, 0, 2, 4>>) \o <<U.nian, Dg(3), U.yue, Dg(5), U.ri>>

DateCompact == Ds(<<2, 0, 2, 4, 0, 3, 0, 5>>)

\* Recognized by date_pattern, parsed by no template.
DateBad == Ds(<<2, 0, 2, 4>>) \o <<A.dash>> \o Ds(<<1, 3>>) \o <<A.dash>> \o Ds(<<4, 5>>)

DateFooter == Ds(<<2, 0, 2, 3>>) \o <<A.dash>> \o Ds(<<0, 1>>) \o <<A.dash>> \o Ds(<<0, 1>>)

BadDateTitle == <<U.shang, U.hai, U.da, U.xue, U.tong, U.zhi, U.gong, U.gao>> \o DateBad

\* <li><a href title>text</a><span>date</span></li>
ListItem(href, attr_title, text, date) ==
    <<Tag(0), Anchor(1, href, attr_title), Text(2, text), Tag(1), Text(4, date)>>

\* A fragment's parents are relative: 0 is the container, k the fragment's
\* k-th node.
Fragments == {
    ListItem(HrefAbsPath, <<>>, ShuTitle, DateIso),
    <<Tag(0), Text(1, DateIso), Anchor(1, HrefAbsPath, <<>>), Text(3, ShuTitle)>>,
                                         \* <span>date<a>title</a></span>
    ListItem(HrefRelative, <<>>, FudanTitle, DateChinese),
    ListItem(HrefAbsPath, <<>>, ShortTitle, DateCompact),
    ListItem(HrefAbsPath, <<>>, AsciiTitle, DateIso),
    ListItem(HrefRelative, <<>>, SevenTitle, DateIso),
    ListItem(HrefAbsolute, <<>>, EightTitle, DateCompact),
    <<Anchor(0, HrefRelative, <<>>), Text(1, BadDateTitle)>>,
                                         \* a bare anchor with an unparseable date in its text
    <<Anchor(0, HrefAbsPath, <<>>), Text(1, EightTitle), Text(0, DateIso)>>,
                                         \* a bare anchor followed by a date
    ListItem(HrefAbsPath, <<>>, EightTitle, DateBad),
    ListItem(HrefAbsolute, ShuTitle, MoreText, DateFooter),
    <<Tag(0), AnchorNoHref(1), Text(2, EightTitle), Tag(1), Text(4, DateIso)>>,
    ListItem(HrefAbsPath, <<>>, EntityTitle, DateIso),
    ListItem(HrefAbsPath, <<>>, KanaTitle, DateIso),
    ListItem(HrefAbsPath, <<>>, PaddedTitle, DateIso),
    ListItem(<<>>, <<>>, EightTitle, <<>>),
    <<Text(0, DateFooter)>> }

Shift(frag, offset) ==
    [i \in 1..Len(frag) |->
        [frag[i] EXCEPT !.parent = IF @ = 0 THEN 1 ELSE @ + offset]]

RECURSIVE Assemble(_, _)
Assemble(frags, page) ==
    IF frags = <<>> THEN page
    ELSE Assemble(Tail(frags), page \o Shift(Head(frags), Len(page)))

\* The container element, then the fragments.
PageOf(frags) == Assemble(frags, <<Tag(0)>>)

MaxFragments == 2

Pages == UNION { { PageOf(fs) : fs \in [1..n -> Fragments] } : n \in 0..MaxFragments }

BaseUrls == {ShuListing, ShuListingDir}

\* The page of the spec's end-to-end scenario.
ScenarioPage ==
    PageOf(<< <<Tag(0), Text(1, DateIso), Anchor(1, HrefAbsPath, <<>>), Text(3, ShuTitle)>> >>)

(***************************************************************************)
(* Inputs of parse_date: up to three digit groups with separators.         *)
(***************************************************************************)
DateGroups == { <<>>, Ds(<<2, 0, 2, 4>>), Ds(<<0, 1, 0, 1>>),
                Ds(<<1, 2, 3, 1>>), <<65298, 65296, 65298, 65300>>,
                Ds(<<3>>), Ds(<<0, 3>>), Ds(<<5>>), Ds(<<0, 5>>), Ds(<<1, 2>>),
                Ds(<<1, 3>>), Ds(<<3, 1>>), Ds(<<2, 9>>), Ds(<<0, 2>>) }

DateInputs ==
    { a \o s1 \o b \o s2 \o c \o s3 :
        a \in DateGroups, b \in DateGroups, c \in DateGroups,
        s1 \in {<<>>, <<A.dash>>, <<A.slash>>, <<U.nian>>},
        s2 \in {<<>>, <<A.dash>>, <<A.slash>>, <<U.yue>>},
        s3 \in {<<>>, <<U.ri>>} }

(***************************************************************************)
(* Specifications of the pure functions: the input is drawn, the function  *)
(* is applied.                                                             *)
(***************************************************************************)
CatOff == cat_pc = "off" /\ cat_title = <<>> /\ cat_result = <<>>

PdOff == pd_pc = "off" /\ pd_input = <<>> /\ pd_result = ValueError

ExOff ==
    /\ ex_pc = "off" /\ html = <<>> /\ base_url = <<>>
    /\ news_list = <<>> /\ trace = <<>> /\ formatted_data = <<>>

StOff ==
    /\ st_pc = "off" /\ db = {} /\ tx = {} /\ data = <<>> /\ item_i = 0
    /\ inserted_count = 0 /\ records = <<>> /\ rec_i = 0 /\ deleted_count = 0
    /\ reachable = FALSE /\ probes = <<>> /\ outcomes = <<>> /\ db_before = {}
    /\ returned = 0 /\ last_call = "none" /\ next_id = 1

MainOff == m_pc = "off" /\ site_i = 0 /\ calls = <<>> /\ failures = {}

\* categorize_news(title)
CatInit == cat_pc = "call" /\ cat_title \in CatTitles /\ cat_result = <<>>

Categorize ==
    /\ cat_pc = "call"
    /\ cat_result' = categorize_news(cat_title)
    /\ cat_pc' = "returned"
    /\ UNCHANGED <<cat_title, pd_vars, ex_vars, st_vars, m_vars>>

InitCategorize == CatInit /\ PdOff /\ ExOff /\ StOff /\ MainOff

NextCategorize == Categorize

SpecCategorize == InitCategorize /\ [][NextCategorize]_vars

\* parse_date(date_str): it returns a datetime or raises ValueError.
PdInit == pd_pc = "call" /\ pd_input \in DateInputs /\ pd_result = ValueError

ParseDateReturns ==
    /\ pd_pc = "call"
    /\ LET r == parse_date(pd_input)
       IN  r.ok /\ pd_result' = r
    /\ pd_pc' = "returned"
    /\ UNCHANGED <<pd_input, cat_vars, ex_vars, st_vars, m_vars>>

ParseDateRaises ==
    /\ pd_pc = "call"
    /\ ~parse_date(pd_input).ok
    /\ pd_result' = ValueError
    /\ pd_pc' = "raised"
    /\ UNCHANGED <<pd_input, cat_vars, ex_vars, st_vars, m_vars>>

InitParseDate == CatOff /\ PdInit /\ ExOff /\ StOff /\ MainOff

NextParseDate == ParseDateReturns \/ ParseDateRaises

SpecParseDate == InitParseDate /\ [][NextParseDate]_vars

\* One site of main's loop from the response on: extract_news (line 257),
\* then formatted_data (lines 258-263).
UniName == <<U.shang, U.hai, U.da, U.xue>>

ExInit ==
    /\ ex_pc = "fetched"
    /\ html \in Pages
    /\ base_url \in BaseUrls
    /\ news_list = <<>> /\ trace = <<>> /\ formatted_data = <<>>

ExtractNews ==
    /\ ex_pc = "fetched"
    /\ news_list' = extract_news(html, base_url).news_list
    /\ trace' = extract_news(html, base_url).trace
    /\ ex_pc' = "extracted"
    /\ UNCHANGED <<html, base_url, formatted_data, cat_vars, pd_vars, st_vars, m_vars>>

FormatData ==
    /\ ex_pc = "extracted"
    /\ formatted_data' =
          [i \in 1..Len(news_list) |->
              [university_name |-> UniName, title |-> news_list[i].title,
               date |-> news_list[i].date, url |-> news_list[i].url]]
    /\ ex_pc' = "formatted"
    /\ UNCHANGED <<html, base_url, news_list, trace, cat_vars, pd_vars, st_vars, m_vars>>

InitExtract == CatOff /\ PdOff /\ ExInit /\ StOff /\ MainOff

NextExtract == ExtractNews \/ FormatData

SpecExtract == InitExtract /\ [][NextExtract]_vars

(***************************************************************************)
(* The store: table news_info (lines 113-123) behind pymysql connections   *)
(* with autocommit off.  db is the committed table; tx is the table as the *)
(* open connection sees it.  Leaving the `with` block without a commit     *)
(* closes the connection and the server rolls the transaction back.        *)
(***************************************************************************)
UrlA == ShuOrigin \o HrefAbsPath

UrlB == ShuOrigin \o <<A.slash>> \o HrefRelative

Item(title, url) ==
    [university_name |-> UniName, title |-> title, date |-> DateIso, url |-> url]

\* Two records with one title and different links, and a third record.
StoreItems == { Item(EightTitle, UrlA), Item(EightTitle, UrlB), Item(ShuTitle, UrlA) }

MaxBatch == 2

Batches == UNION { [1..n -> StoreItems] : n \in 0..MaxBatch }

\* The largest AUTO_INCREMENT id the model hands out.
MaxId == 3

\* What requests.head (line 68) gives: a response with a status code, or an
\* exception (kind "RequestException" covers connection errors, timeouts and
\* malformed URLs).
Responses == { [kind |-> "response", status_code |-> 200],
               [kind |-> "response", status_code |-> 204],
               [kind |-> "response", status_code |-> 404],
               [kind |-> "RequestException", status_code |-> 0],
               [kind |-> "ValueError", status_code |-> 0] }

\* A probe that takes every response for success.
check_url_any_response(resp) == resp.kind = "response"

\* check_url_availability (lines 65-71), given what requests.head did.
check_url_availability(resp) ==
    IF resp.kind = "response" THEN resp.status_code = 200 ELSE FALSE

\* A table without the constraint.
NoUniqueConstraint(rows, title) == FALSE

\* title ... UNIQUE (line 117): the INSERT raises IntegrityError 1062.
UniqueViolation(rows, title) == \E r \in rows : r.title = title

\* The row the INSERT of lines 166-172 writes.
RowOf(id, item) ==
    [id |-> id, university_name |-> item.university_name, title |-> item.title,
     date |-> item.date, link |-> item.url, category |-> categorize_news(item.title)]

\* cursor.fetchall() of SELECT id, link (lines 78-79), in id order.
RECURSIVE SelectIdLink(_)
SelectIdLink(rows) ==
    IF rows = {} THEN <<>>
    ELSE LET r == CHOOSE x \in rows : \A y \in rows : x.id <= y.id
         IN  <<[id |-> r.id, link |-> r.link]>> \o SelectIdLink(rows \ {r})

StInit ==
    /\ st_pc = "idle" /\ db = {} /\ tx = {} /\ data = <<>> /\ item_i = 0
    /\ inserted_count = 0 /\ records = <<>> /\ rec_i = 0 /\ deleted_count = 0
    /\ reachable = FALSE /\ probes = <<>> /\ outcomes = <<>> /\ db_before = {}
    /\ returned = 0 /\ last_call = "none" /\ next_id = 1

StOthers == <<cat_vars, pd_vars, ex_vars, m_vars>>

\* The except clause of lines 183-185 and 91-93: the connection is closed
\* uncommitted, the error is logged and the call returns 0.
Abort(call) ==
    /\ st_pc' = "idle"
    /\ tx' = {}
    /\ returned' = 0
    /\ last_call' = call
    /\ UNCHANGED db

\* The locals of the call before are gone when the next call starts.
CleanLocalsGone ==
    records' = <<>> /\ rec_i' = 0 /\ deleted_count' = 0 /\ reachable' = FALSE

InsertLocalsGone ==
    /\ data' = <<>> /\ item_i' = 0 /\ inserted_count' = 0 /\ outcomes' = <<>>
    /\ reachable' = FALSE

\* insert_news_data(data): lines 148-156, the connection opens.
InsertBegin ==
    /\ st_pc = "idle"
    /\ \E batch \in Batches :
          /\ next_id + Len(batch) - 1 <= MaxId
          /\ data' = batch
          /\ st_pc' = IF batch = <<>> THEN "ins_commit" ELSE "ins_probe"
    /\ tx' = db
    /\ db_before' = db
    /\ inserted_count' = 0
    /\ item_i' = 1
    /\ probes' = <<>>
    /\ outcomes' = <<>>
    /\ last_call' = "insert"
    /\ CleanLocalsGone
    /\ UNCHANGED <<db, returned, next_id, StOthers>>

\* pymysql.connect raises.
InsertConnectFails ==
    /\ st_pc = "idle"
    /\ \E batch \in Batches : data' = batch
    /\ db_before' = db
    /\ probes' = <<>>
    /\ outcomes' = <<>>
    /\ Abort("insert_aborted")
    /\ CleanLocalsGone
    /\ item_i' = 0
    /\ inserted_count' = 0
    /\ UNCHANGED <<next_id, StOthers>>

\* Line 160: the probe of the item's url.
InsertProbe ==
    /\ st_pc = "ins_probe"
    /\ \E resp \in Responses :
          /\ reachable' = check_url_availability(resp)
          /\ probes' = Append(probes, resp)
    /\ st_pc' = "ins_exec"
    /\ UNCHANGED <<db, tx, data, item_i, inserted_count, records, rec_i, deleted_count,
                   outcomes, db_before, returned, last_call, next_id, StOthers>>

NextItem ==
    /\ item_i' = item_i + 1
    /\ st_pc' = IF item_i < Len(data) THEN "ins_probe" ELSE "ins_commit"

\* Lines 160-162: unreachable, continue.
InsertSkipUnreachable ==
    /\ st_pc = "ins_exec"
    /\ ~reachable
    /\ outcomes' = Append(outcomes, "unreachable")
    /\ NextItem
    /\ UNCHANGED <<db, tx, data, inserted_count, records, rec_i, deleted_count, reachable,
                   probes, db_before, returned, last_call, next_id, StOthers>>

\* Lines 166-173: the INSERT succeeds.
InsertRow ==
    /\ st_pc = "ins_exec"
    /\ reachable
    /\ ~UniqueViolation(tx, data[item_i].title)
    /\ tx' = tx \cup {RowOf(next_id, data[item_i])}
    /\ next_id' = next_id + 1
    /\ inserted_count' = inserted_count + 1
    /\ outcomes' = Append(outcomes, "inserted")
    /\ NextItem
    /\ UNCHANGED <<db, data, records, rec_i, deleted_count, reachable, probes, db_before,
                   returned, last_call, StOthers>>

\* Lines 174-176: IntegrityError 1062 is logged and the loop goes on.
InsertDuplicate ==
    /\ st_pc = "ins_exec"
    /\ reachable
    /\ UniqueViolation(tx, data[item_i].title)
    /\ outcomes' = Append(outcomes, "duplicate")
    /\ NextItem
    /\ UNCHANGED <<db, tx, data, inserted_count, records, rec_i, deleted_count, reachable,
                   probes, db_before, returned, last_call, next_id, StOthers>>

\* Lines 177-178 and 183-185: any other error of the INSERT leaves the loop.
InsertStorageFailure ==
    /\ st_pc = "ins_exec"
    /\ reachable
    /\ Abort("insert_aborted")
    /\ UNCHANGED <<data, item_i, inserted_count, records, rec_i, deleted_count, reachable,
                   probes, outcomes, db_before, next_id, StOthers>>

\* Lines 180-182.
InsertCommit ==
    /\ st_pc = "ins_commit"
    /\ db' = tx
    /\ returned' = inserted_count
    /\ last_call' = "insert_committed"
    /\ st_pc' = "idle"
    /\ UNCHANGED <<tx, data, item_i, inserted_count, records, rec_i, deleted_count,
                   reachable, probes, outcomes, db_before, next_id, StOthers>>

\* connection.commit() raises.
InsertCommitFails ==
    /\ st_pc = "ins_commit"
    /\ Abort("insert_aborted")
    /\ UNCHANGED <<data, item_i, inserted_count, records, rec_i, deleted_count, reachable,
                   probes, outcomes, db_before, next_id, StOthers>>

\* clean_invalid_links(): lines 76-81.
CleanBegin ==
    /\ st_pc = "idle"
    /\ records' = SelectIdLink(db)
    /\ st_pc' = IF db = {} THEN "cl_commit" ELSE "cl_probe"
    /\ tx' = db
    /\ db_before' = db
    /\ deleted_count' = 0
    /\ rec_i' = 1
    /\ probes' = <<>>
    /\ last_call' = "clean"
    /\ InsertLocalsGone
    /\ UNCHANGED <<db, returned, next_id, StOthers>>

\* pymysql.connect or the SELECT raises.
CleanConnectFails ==
    /\ st_pc = "idle"
    /\ db_before' = db
    /\ probes' = <<>>
    /\ records' = <<>>
    /\ Abort("clean_aborted")
    /\ InsertLocalsGone
    /\ rec_i' = 0
    /\ deleted_count' = 0
    /\ UNCHANGED <<next_id, StOthers>>

\* Line 83: the probe of the record's link.
CleanProbe ==
    /\ st_pc = "cl_probe"
    /\ \E resp \in Responses :
          /\ reachable' = check_url_availability(resp)
          /\ probes' = Append(probes, resp)
    /\ st_pc' = "cl_exec"
    /\ UNCHANGED <<db, tx, data, item_i, inserted_count, records, rec_i, deleted_count,
                   outcomes, db_before, returned, last_call, next_id, StOthers>>

NextRecord ==
    /\ rec_i' = rec_i + 1
    /\ st_pc' = IF rec_i < Len(records) THEN "cl_probe" ELSE "cl_commit"

\* Line 83, the link is reachable: nothing to do.
CleanKeep ==
    /\ st_pc = "cl_exec"
    /\ reachable
    /\ NextRecord
    /\ UNCHANGED <<db, tx, data, item_i, inserted_count, records, deleted_count, reachable,
                   probes, outcomes, db_before, returned, last_call, next_id, StOthers>>

\* A DELETE on a connection with autocommit on.
CleanDeleteAutocommit ==
    /\ st_pc = "cl_exec"
    /\ ~reachable
    /\ tx' = {r \in tx : r.id # records[rec_i].id}
    /\ db' = {r \in db : r.id # records[rec_i].id}
    /\ deleted_count' = deleted_count + 1
    /\ NextRecord
    /\ UNCHANGED <<data, item_i, inserted_count, records, reachable, probes, outcomes,
                   db_before, returned, last_call, next_id, StOthers>>

\* Lines 84-86: DELETE ... WHERE id = record_id, inside the transaction.
CleanDelete ==
    /\ st_pc = "cl_exec"
    /\ ~reachable
    /\ tx' = {r \in tx : r.id # records[rec_i].id}
    /\ deleted_count' = deleted_count + 1
    /\ NextRecord
    /\ UNCHANGED <<db, data, item_i, inserted_count, records, reachable, probes, outcomes,
                   db_before, returned, last_call, next_id, StOthers>>

\* Lines 91-93: an error during the scan (the DELETE raises, the connection
\* drops) leaves the loop.
CleanScanFailure ==
    /\ st_pc = "cl_exec"
    /\ Abort("clean_aborted")
    /\ UNCHANGED <<data, item_i, inserted_count, records, rec_i, deleted_count, reachable,
                   probes, outcomes, db_before, next_id, StOthers>>

\* Lines 88-90.
CleanCommit ==
    /\ st_pc = "cl_commit"
    /\ db' = tx
    /\ returned' = deleted_count
    /\ last_call' = "clean_committed"
    /\ st_pc' = "idle"
    /\ UNCHANGED <<tx, data, item_i, inserted_count, records, rec_i, deleted_count,
                   reachable, probes, outcomes, db_before, next_id, StOthers>>

\* connection.commit() raises.
CleanCommitFails ==
    /\ st_pc = "cl_commit"
    /\ Abort("clean_aborted")
    /\ UNCHANGED <<data, item_i, inserted_count, records, rec_i, deleted_count, reachable,
                   probes, outcomes, db_before, next_id, StOthers>>

InitStore == CatOff /\ PdOff /\ ExOff /\ StInit /\ MainOff

NextStore ==
    \/ InsertBegin \/ InsertConnectFails \/ InsertProbe \/ InsertSkipUnreachable
    \/ InsertRow \/ InsertDuplicate \/ InsertStorageFailure \/ InsertCommit
    \/ InsertCommitFails
    \/ CleanBegin \/ CleanConnectFails \/ CleanProbe \/ CleanKeep \/ CleanDelete
    \/ CleanScanFailure \/ CleanCommit \/ CleanCommitFails

SpecStore == InitStore /\ [][NextStore]_vars

(***************************************************************************)
(* main (lines 241-273).  calls is the log of the fetches, the calls of    *)
(* insert_news_data and the calls of clean_invalid_links, in order;        *)
(* failures is the set of the kinds of per-site failure met so far.        *)
(***************************************************************************)
\* len(sites), lines 228-239.
NumSites == 10

MainOthers == <<cat_vars, pd_vars, ex_vars, st_vars>>

MainInit == m_pc = "start" /\ site_i = 0 /\ calls = <<>> /\ failures = {}

Call(op, site) == [op |-> op, site |-> site]

\* Lines 242-244: create_news_table() returned False.
MainTableFails ==
    /\ m_pc = "start"
    /\ m_pc' = "halted"
    /\ UNCHANGED <<site_i, calls, failures, MainOthers>>

\* Line 242: create_news_table() returned True.
MainTableReady ==
    /\ m_pc = "start"
    /\ m_pc' = "fetch"
    /\ site_i' = 1
    /\ UNCHANGED <<calls, failures, MainOthers>>

\* A fetch that raises ends main's loop.
MainFetchRaisesBreaks ==
    /\ m_pc = "fetch"
    /\ site_i <= NumSites
    /\ calls' = Append(calls, Call("fetch", site_i))
    /\ failures' = failures \cup {"fetch_raised"}
    /\ site_i' = NumSites + 1
    /\ UNCHANGED <<m_pc, MainOthers>>

\* Lines 250 and 268-269: requests.get raises (timeout, connection error);
\* the except clause logs it and the loop goes on.
MainFetchRaises ==
    /\ m_pc = "fetch"
    /\ site_i <= NumSites
    /\ calls' = Append(calls, Call("fetch", site_i))
    /\ failures' = failures \cup {"fetch_raised"}
    /\ site_i' = site_i + 1
    /\ UNCHANGED <<m_pc, MainOthers>>

\* Lines 253-255: not resp.ok, continue.
MainFetchNotOk ==
    /\ m_pc = "fetch"
    /\ site_i <= NumSites
    /\ calls' = Append(calls, Call("fetch", site_i))
    /\ failures' = failures \cup {"status_not_ok"}
    /\ site_i' = site_i + 1
    /\ UNCHANGED <<m_pc, MainOthers>>

\* Line 250: a response with resp.ok.
MainFetchOk ==
    /\ m_pc = "fetch"
    /\ site_i <= NumSites
    /\ calls' = Append(calls, Call("fetch", site_i))
    /\ m_pc' = "extract"
    /\ UNCHANGED <<site_i, failures, MainOthers>>

\* Line 257 raises (the document cannot be parsed); lines 268-269.
MainExtractRaises ==
    /\ m_pc = "extract"
    /\ failures' = failures \cup {"extract_raised"}
    /\ m_pc' = "fetch"
    /\ site_i' = site_i + 1
    /\ UNCHANGED <<calls, MainOthers>>

\* Lines 257-263.
MainExtractOk ==
    /\ m_pc = "extract"
    /\ m_pc' = "insert"
    /\ UNCHANGED <<site_i, calls, failures, MainOthers>>

\* Lines 265-266: insert_news_data committed and returned its count.
MainInsert ==
    /\ m_pc = "insert"
    /\ calls' = Append(calls, Call("insert", site_i))
    /\ m_pc' = "fetch"
    /\ site_i' = site_i + 1
    /\ UNCHANGED <<failures, MainOthers>>

\* Lines 265-266: insert_news_data failed; it logs the error and returns 0
\* (lines 183-185), it does not raise.
MainInsertFails ==
    /\ m_pc = "insert"
    /\ calls' = Append(calls, Call("insert", site_i))
    /\ failures' = failures \cup {"insert_failed"}
    /\ m_pc' = "fetch"
    /\ site_i' = site_i + 1
    /\ UNCHANGED MainOthers

\* Lines 271-273.
MainCleanup ==
    /\ m_pc = "fetch"
    /\ site_i > NumSites
    /\ calls' = Append(calls, Call("clean", 0))
    /\ m_pc' = "done"
    /\ UNCHANGED <<site_i, failures, MainOthers>>

InitMain == CatOff /\ PdOff /\ ExOff /\ StOff /\ MainInit

NextMain ==
    \/ MainTableFails \/ MainTableReady \/ MainFetchRaises \/ MainFetchNotOk
    \/ MainFetchOk \/ MainExtractRaises \/ MainExtractOk \/ MainInsert
    \/ MainInsertFails \/ MainCleanup

SpecMain == InitMain /\ [][NextMain]_vars

(***************************************************************************)
(* Properties of the pure functions                                        *)
(***************************************************************************)
Min(S) == CHOOSE x \in S : \A y \in S : x <= y

HasChinese(title) == \E j \in 1..Len(title) : title[j] >= 19968 /\ title[j] <= 40869

\* C4 as stated: categorize_news of the title "Fudan University holds an
\* academic lecture" (FudanTitle) is the category huo-dong (events).
C4_FudanIsEvents ==
    (cat_pc = "returned" /\ cat_title = FudanTitle) => cat_result = <<U.huo, U.dong>>

\* C4 as amended: categorize_news(FudanTitle) is the category da-xue
\* (university), the first category in mapping order with a keyword in the
\* title, even though keywords of the later categories xue-shu (academic) and
\* huo-dong (events) occur in the title too.
C4_FudanIsUniversity ==
    (cat_pc = "returned" /\ cat_title = FudanTitle) =>
        /\ cat_result = <<U.da, U.xue>>
        /\ Contains(cat_title, <<U.da, U.xue>>)
        /\ Contains(cat_title, <<U.xue, U.shu>>)
        /\ Contains(cat_title, <<U.jiang, U.zuo>>)

C4_Witness == cat_pc = "returned" /\ cat_title = FudanTitle

\* The templates of C5, in the order the claim gives them.
ClaimTemplates == <<
    <<DirY, Lit(U.nian), DirM, Lit(U.yue), DirD, Lit(U.ri)>>,
    <<DirY, DirM, DirD>>,
    <<DirY, Lit(A.slash), DirM, Lit(A.slash), DirD>>,
    <<DirY, Lit(A.dash), DirM, Lit(A.dash), DirD>>,
    <<DirY, Lit(A.dash), DirM>>,
    <<DirM, DirD, DirY>>,
    <<DirD, DirY, Lit(A.slash), DirM>> >>

AsciiDigits(ds) == \A j \in 1..Len(ds) : ds[j] >= 48 /\ ds[j] <= 57

\* The digits of a day: ASCII, but for a decimal digit of another script
\* after a leading 1 or 2, which %d reads as well.
DayDigits(ds) ==
    /\ ds[1] >= 48 /\ ds[1] <= 57
    /\ \A j \in 2..Len(ds) : ds[j] \in DigitClass /\ (ds[j] > 57 => ds[1] \in {49, 50})

\* The dates a template reads from the whole of s: a year of four decimal
\* digits, a month 1..12 and a day 1..31 of one or two digits each, the
\* literal characters as written, and a date of the calendar.  A template
\* without a day gives day 1.
TemplateDates(tpl, s) ==
    { dt \in UNION { UNION {
        LET lens == [k \in 1..Len(tpl) |->
                        CASE tpl[k].dir = "Y" -> 4
                          [] tpl[k].dir = "m" -> lm
                          [] tpl[k].dir = "d" -> ld
                          [] OTHER -> 1]
            piece(k) == ReGroup(s, 1, lens, k)
            val(dir, default) ==
                IF \E k \in 1..Len(tpl) : tpl[k].dir = dir
                THEN IntOf(piece(CHOOSE k \in 1..Len(tpl) : tpl[k].dir = dir))
                ELSE default
            fits == /\ SumTo(lens, Len(tpl)) = Len(s)
                    /\ \A k \in 1..Len(tpl) :
                          CASE tpl[k].dir = "Y" -> \A j \in 1..4 : piece(k)[j] \in DigitClass
                            [] tpl[k].dir = "m" -> AsciiDigits(piece(k))
                                                   /\ IntOf(piece(k)) \in 1..12
                            [] tpl[k].dir = "d" -> DayDigits(piece(k))
                                                   /\ IntOf(piece(k)) \in 1..31
                            [] OTHER -> piece(k) = <<tpl[k].ch>>
        IN  IF fits THEN { [y |-> val("Y", 0), m |-> val("m", 1), d |-> val("d", 1)] }
            ELSE {} : lm \in 1..2 } : ld \in 1..2 } :
      ValidDate(dt.y, dt.m, dt.d) }

Example(y, m, d) == [ok |-> TRUE, date |-> [y |-> y, m |-> m, d |-> d]]

\* C5: parse_date returns the date of the first template, in the claim's
\* order, that reads the whole input, and raises when none does; the three
\* examples of the claim give 2024-03-05, 2024-03-01 and 2024-03-05.
C5_FirstTemplateWins ==
    /\ pd_pc \in {"returned", "raised"} =>
          LET parsing == {k \in 1..Len(ClaimTemplates) :
                              TemplateDates(ClaimTemplates[k], pd_input) # {}}
          IN  IF parsing = {} THEN pd_pc = "raised" /\ ~pd_result.ok
              ELSE /\ pd_pc = "returned" /\ pd_result.ok
                   /\ pd_result.date \in TemplateDates(ClaimTemplates[Min(parsing)], pd_input)
    /\ (pd_pc # "call" /\ pd_input = DateChinese) => pd_result = Example(2024, 3, 5)
    /\ (pd_pc # "call" /\ pd_input = Ds(<<2, 0, 2, 4>>) \o <<A.dash>> \o Ds(<<0, 3>>))
          => pd_result = Example(2024, 3, 1)
    /\ (pd_pc # "call" /\ pd_input = DateCompact) => pd_result = Example(2024, 3, 5)

\* An input two templates read differently has been parsed.
C5_Witness ==
    /\ pd_pc = "returned"
    /\ Cardinality({k \in 1..Len(ClaimTemplates) :
                        TemplateDates(ClaimTemplates[k], pd_input) # {}}) >= 2
    /\ pd_input = Ds(<<0, 1, 0, 1, 1, 2, 3, 1>>)

\* C3: extract_news never emits a record whose title (the title attribute if
\* non-empty, else the stripped text, entity-decoded) is shorter than 8
\* characters or has no Chinese character, so neither has any record of
\* formatted_data, which main hands to insert_news_data.
C3_TitleFilter ==
    /\ ex_pc \in {"extracted", "formatted"} =>
          /\ \A k \in 1..Len(trace) :
                LET t == unescape(IF html[trace[k].link].title # <<>>
                                  THEN html[trace[k].link].title
                                  ELSE get_text(html, trace[k].link, TRUE))
                IN  (Len(t) < 8 \/ ~HasChinese(t)) => trace[k].outcome # "appended"
          /\ \A i \in 1..Len(news_list) :
                Len(news_list[i].title) >= 8 /\ HasChinese(news_list[i].title)
    /\ ex_pc = "formatted" =>
          /\ Len(formatted_data) = Len(news_list)
          /\ \A i \in 1..Len(formatted_data) :
                Len(formatted_data[i].title) >= 8 /\ HasChinese(formatted_data[i].title)

\* A page with a long title without Chinese characters and an emitted record.
C3_Witness ==
    /\ ex_pc = "formatted"
    /\ Len(formatted_data) >= 1
    /\ \E k \in 1..Len(trace) :
          /\ trace[k].outcome = "short_or_foreign"
          /\ Len(get_text(html, trace[k].link, TRUE)) >= 8

\* C6: the end-to-end scenario gives exactly one record, with the anchor's
\* title, the url https://news.shu.edu.cn/news/1.htm and the date 2024-05-10
\* found in the span (the anchor's own text, with its year digits, gives no
\* match), and the title's category is zhao-sheng (admissions).
C6_Scenario ==
    (ex_pc = "extracted" /\ html = ScenarioPage /\ base_url = ShuListing) =>
        /\ news_list = << [title |-> ShuTitle, url |-> ShuOrigin \o HrefAbsPath,
                           date |-> DateIso] >>
        /\ trace[1].consulted = <<4, 2>>
        /\ trace[1].date_str = DateIso
        /\ categorize_news(news_list[1].title) = <<U.zhao, U.sheng>>

C6_Witness ==
    /\ ex_pc = "extracted" /\ html = ScenarioPage /\ base_url = ShuListing
    /\ Len(news_list) = 1

\* The page without element e and everything below it.
RemoveSubtree(page, e) ==
    LET kept    == SelectSeq([i \in 1..Len(page) |-> i], LAMBDA i : ~InSubtree(page, i, e))
        gone(i) == Cardinality({j \in 1..i : InSubtree(page, j, e)})
    IN  [n \in 1..Len(kept) |->
            [page[kept[n]] EXCEPT !.parent = @ - gone(@)]]

\* The page with the href attribute of anchor e removed: find_all no longer
\* enumerates e, its text stays where it is.
WithoutHref(page, e) == [page EXCEPT ![e].has_href = FALSE]

Failing == {k \in 1..Len(trace) : trace[k].outcome = "invalid_date"}

\* C9 as stated: the records emitted are those of the page without the
\* failing anchor.
C9_AsIfAbsent ==
    ex_pc = "extracted" =>
        \A k \in Failing :
            news_list = extract_news(RemoveSubtree(html, trace[k].link), base_url).news_list

\* C9 as amended: an anchor whose date cannot be parsed emits nothing, and the
\* records of the other anchors are those the page gives when the failing
\* anchor is not enumerated (its text still part of its ancestors' text).
C9_AsIfNotEnumerated ==
    ex_pc = "extracted" =>
        \A k \in Failing :
            LET other == extract_news(WithoutHref(html, trace[k].link), base_url)
            IN  /\ news_list = other.news_list
                /\ other.trace = SubSeq(trace, 1, k - 1) \o SubSeq(trace, k + 1, Len(trace))
                /\ trace[k].rec = NoRecord
                /\ Len(news_list) =
                      Cardinality({i \in 1..Len(trace) : trace[i].outcome = "appended"})

\* A failing anchor followed by an anchor whose record is emitted.
C9_Witness ==
    /\ ex_pc = "extracted"
    /\ \E k \in Failing : \E k2 \in (k + 1)..Len(trace) : trace[k2].outcome = "appended"

\* The chain anchor, parent, ..., root.
RECURSIVE Chain(_, _)
Chain(page, e) == IF e = NoElement THEN <<>> ELSE <<e>> \o Chain(page, Parent(page, e))

\* C10: for an anchor that passes the title filter the elements examined are
\* a prefix of the chain anchor, parent, ..., root (so the walk ends); the
\* date substring is the first match in the text of the nearest element of
\* the chain whose text has a match, nothing above it is examined, and an
\* anchor without a match on the whole chain emits no record.
C10_NearestMatch ==
    ex_pc = "extracted" =>
        \A k \in 1..Len(trace) :
            trace[k].outcome # "short_or_foreign" =>
                LET chain == Chain(html, trace[k].link)
                    hits  == {j \in 1..Len(chain) :
                                 Search(date_pattern, get_text(html, chain[j], FALSE)).found}
                IN  IF hits = {}
                    THEN trace[k].outcome = "no_date" /\ trace[k].consulted = chain
                    ELSE /\ trace[k].consulted = SubSeq(chain, 1, Min(hits))
                         /\ trace[k].date_str =
                               Search(date_pattern,
                                      get_text(html, chain[Min(hits)], FALSE)).group
                         /\ trace[k].outcome \in {"appended", "invalid_date"}

\* A page with an anchor whose date was found two levels up and an anchor
\* whose date was found in its parent.
C10_Witness ==
    /\ ex_pc = "extracted"
    /\ \E k \in 1..Len(trace) :
          /\ trace[k].outcome = "appended"
          /\ Len(trace[k].consulted) = 3
    /\ \E k \in 1..Len(trace) :
          /\ trace[k].outcome = "appended"
          /\ Len(trace[k].consulted) = 2

(***************************************************************************)
(* Properties of the store and of main                                     *)
(***************************************************************************)
UniqueTitles(rows) == \A r1 \in rows : \A r2 \in rows : r1.title = r2.title => r1 = r2

Inserted == {k \in 1..Len(outcomes) : outcomes[k] = "inserted"}

StoredBefore(k) == \E r \in db_before : r.title = data[k].title

AppearedEarlier(k) == \E k0 \in 1..(k - 1) : data[k0].title = data[k].title

InsertedEarlier(k) == \E k0 \in 1..(k - 1) : k0 \in Inserted /\ data[k0].title = data[k].title

\* What holds of every call of insert_news_data whatever "earlier" means: the
\* titles stay unique, every item is processed, and the value returned is the
\* number of rows the committed batch added.
InsertAccounts ==
    /\ UniqueTitles(db)
    /\ UniqueTitles(tx)
    /\ st_pc \in {"ins_probe", "ins_exec", "ins_commit"} =>
          /\ inserted_count = Cardinality(Inserted)
          /\ Cardinality(tx) = Cardinality(db_before) + inserted_count
    /\ (st_pc = "idle" /\ last_call = "insert_committed") =>
          /\ Len(outcomes) = Len(data)
          /\ returned = Cardinality(Inserted)
          /\ Cardinality(db) = Cardinality(db_before) + returned

\* C1 as stated: no two stored records share a title, and an item whose
\* title is stored already or appeared earlier in the same batch adds no
\* row, is not counted and does not stop the rest of the batch.
C1_RepeatedTitleAddsNoRow ==
    /\ InsertAccounts
    /\ (st_pc = "idle" /\ last_call = "insert_committed") =>
          \A k \in 1..Len(data) :
              (StoredBefore(k) \/ AppearedEarlier(k)) => outcomes[k] # "inserted"

\* C1, amended: no two stored records share a title, whatever batches and
\* cleanup passes ran; an item whose title is stored already, in the table or
\* by an earlier item of the same batch that was inserted, adds no row, is
\* not counted in the value returned and does not keep the later items from
\* being processed.  (An earlier item with the same title that was skipped as
\* unreachable leaves the title free.)
C1_UniqueTitles ==
    /\ InsertAccounts
    /\ (st_pc = "idle" /\ last_call = "insert_committed") =>
          \A k \in 1..Len(data) :
              (StoredBefore(k) \/ InsertedEarlier(k)) => outcomes[k] # "inserted"

\* A committed batch whose first item was a duplicate of a stored title and
\* whose second item was inserted.
C1_Witness ==
    /\ st_pc = "idle" /\ last_call = "insert_committed"
    /\ Len(outcomes) = 2
    /\ outcomes[1] = "duplicate" /\ outcomes[2] = "inserted"
    /\ db_before # {}
    /\ returned = 1

\* The probe failed: a status that is not a success status (2xx), a network
\* error, a timeout or a malformed URL.
ProbeFailed(resp) == resp.kind # "response" \/ resp.status_code \notin 200..299

\* The probe reported the link reachable.
ProbedReachable(resp) == resp.kind = "response" /\ resp.status_code = 200

ProbeOfRow(r) == probes[CHOOSE k \in 1..Len(records) : records[k].id = r.id]

\* C2: an item whose probe failed is never inserted; a cleanup that commits
\* removes every stored record whose probe failed in that pass, removes no
\* record whose link was probed reachable, and returns the number removed.
C2_ProbeDecides ==
    /\ st_pc \in {"ins_probe", "ins_commit"} \/ last_call = "insert_committed" =>
          /\ \A k \in 1..Len(outcomes) : ProbeFailed(probes[k]) => outcomes[k] = "unreachable"
          /\ \A r \in tx \ db_before :
                \E k \in Inserted : ProbedReachable(probes[k]) /\ r.title = data[k].title
                                    /\ r.link = data[k].url
    /\ (st_pc = "idle" /\ last_call = "insert_committed") =>
          \A r \in db \ db_before :
              \E k \in Inserted : ProbedReachable(probes[k]) /\ r.link = data[k].url
    /\ (st_pc = "idle" /\ last_call = "clean_committed") =>
          /\ Len(probes) = Len(records)
          /\ db \subseteq db_before
          /\ \A r \in db_before :
                /\ ProbeFailed(ProbeOfRow(r)) => r \notin db
                /\ ProbedReachable(ProbeOfRow(r)) => r \in db
          /\ returned = Cardinality(db_before \ db)

\* A committed cleanup that removed one record and kept another.
C2_Witness ==
    /\ st_pc = "idle" /\ last_call = "clean_committed"
    /\ Cardinality(db_before) = 2
    /\ Cardinality(db) = 1
    /\ returned = 1
    /\ \E r \in db_before \ db : ProbeFailed(ProbeOfRow(r))
    /\ \E r \in db : ProbedReachable(ProbeOfRow(r))

\* C7: nothing is committed before the end of a call, and a call that is
\* aborted leaves the committed table as it was before the call and returns 0.
C7_BatchScoped ==
    /\ st_pc # "idle" => db = db_before
    /\ (st_pc = "idle" /\ last_call \in {"insert_aborted", "clean_aborted"}) =>
          db = db_before /\ returned = 0

\* A cleanup aborted after it had deleted a record: the two committed rows
\* are still there.
C7_Witness ==
    /\ st_pc = "idle"
    /\ last_call = "clean_aborted"
    /\ deleted_count >= 1
    /\ Cardinality(db) = 2

Fetches == SelectSeq(calls, LAMBDA c : c.op = "fetch")

Cleans == SelectSeq(calls, LAMBDA c : c.op = "clean")

\* C8: when create_news_table fails nothing is fetched, inserted or cleaned;
\* when it succeeds the sites are fetched once each, in list order, whatever
\* failed at an earlier site, insert_news_data is called for a site only
\* after that site's fetch, and clean_invalid_links runs once, last.
C8_OnlySchemaFailureHalts ==
    /\ m_pc = "halted" => calls = <<>>
    /\ m_pc \in {"fetch", "extract", "insert", "done"} =>
          /\ \A i \in 1..Len(Fetches) : Fetches[i].site = i
          /\ Len(Fetches) = (IF m_pc = "fetch" THEN site_i - 1
                             ELSE IF m_pc = "done" THEN NumSites ELSE site_i)
          /\ \A i \in 1..Len(calls) :
                calls[i].op = "insert" => i > 1 /\ calls[i - 1] = Call("fetch", calls[i].site)
    /\ m_pc # "done" => Cleans = <<>>
    /\ m_pc = "done" =>
          /\ Len(Fetches) = NumSites
          /\ Len(Cleans) = 1
          /\ calls[Len(calls)].op = "clean"

\* A finished run in which every kind of per-site failure was met and the
\* last site was still inserted.
C8_Witness ==
    /\ m_pc = "done"
    /\ failures = {"fetch_raised", "status_not_ok", "extract_raised", "insert_failed"}
    /\ calls[1] = Call("fetch", 1)
    /\ calls[2] = Call("fetch", 2)
    /\ calls[Len(calls) - 1] = Call("insert", NumSites)

====
